---- MODULE Spec2Model ----
(***************************************************************************)
(* Model of the Hardware Store API (src/main.py): the product handlers     *)
(* list_products, create_product, get_product, the serializer              *)
(* serialize_product and the seed loader seed_products, over a document    *)
(* collection "product".                                                   *)
(*                                                                         *)
(* Python values are tagged records: [t |-> "str", v |-> ...],             *)
(* [t |-> "float", v |-> cents], [t |-> "int", v |-> n],                   *)
(* [t |-> "bool", v |-> b], [t |-> "ObjectId", v |-> n], [t |-> "None"].   *)
(* A document is a function from its keys to such values; an absent key is *)
(* a key outside its DOMAIN.  Request text (ids, q, titles in the API      *)
(* specification) is a sequence of one-character strings, so that parsing  *)
(* an id and matching a regular expression are computed.                   *)
(***************************************************************************)
EXTENDS Integers, Sequences, FiniteSets, TLC

VARIABLES store, nextId, seeders, nCalls, nFails, nCreates, overlapped, atStart, resp, raw

vars == <<store, nextId, seeders, nCalls, nFails, nCreates, overlapped, atStart, resp, raw>>

(***************************************************************************)
(* Bounds of the model.                                                    *)
(***************************************************************************)
MaxSeedCalls == 3
MaxRaceCalls == 2
MaxFails == 1
MaxCreates == 1
MaxRecords == 2
IdBase == 10

(***************************************************************************)
(* Python values.                                                          *)
(***************************************************************************)
None == [t |-> "None"]
StrV(s) == [t |-> "str", v |-> s]
FloatV(c) == [t |-> "float", v |-> c]
IntV(n) == [t |-> "int", v |-> n]
BoolV(b) == [t |-> "bool", v |-> b]
OidV(n) == [t |-> "ObjectId", v |-> n]

\* dict.get(key, default)
Get(doc, key, default) == IF key \in DOMAIN doc THEN doc[key] ELSE default

\* Python truthiness, as used by `if q:`, `if category:`, `if not doc:`
Truthy(x) ==
    CASE x.t = "None" -> FALSE
      [] x.t = "str" -> x.v # <<>>
      [] x.t = "bool" -> x.v
      [] x.t \in {"int", "float"} -> x.v # 0
      [] OTHER -> TRUE

\* float(x): a number or a bool converts, anything else raises TypeError.
\* A float carries its value in hundredths; an int n is the whole number n.
PyFloat(x) ==
    CASE x.t = "float" -> FloatV(x.v)
      [] x.t = "int" -> FloatV(x.v * 100)
      [] x.t = "bool" -> FloatV(IF x.v THEN 100 ELSE 0)
      [] OTHER -> [t |-> "TypeError"]

\* bool(x)
PyBool(x) == BoolV(Truthy(x))

(***************************************************************************)
(* Identifier codec: str(ObjectId) and ObjectId(str).                      *)
(***************************************************************************)
IdLen == 24

HexDigits == <<"0", "1", "2", "3", "4", "5", "6", "7", "8", "9", "a", "b", "c", "d", "e", "f">>

UpperHex == <<"A", "B", "C", "D", "E", "F">>

RECURSIVE ToHex(_, _)
ToHex(n, len) ==
    IF len = 0 THEN <<>>
    ELSE Append(ToHex(n \div 16, len - 1), HexDigits[(n % 16) + 1])

\* str(oid): 24 lower-case hexadecimal characters
Encode(n) == ToHex(n, IdLen)

IsHexChar(c) ==
    \/ \E i \in 1..16 : HexDigits[i] = c
    \/ \E i \in 1..6 : UpperHex[i] = c

DigitVal(c) ==
    IF \E i \in 1..16 : HexDigits[i] = c
    THEN (CHOOSE i \in 1..16 : HexDigits[i] = c) - 1
    ELSE (CHOOSE i \in 1..6 : UpperHex[i] = c) + 9

RECURSIVE HexVal(_)
HexVal(s) ==
    IF s = <<>> THEN 0
    ELSE HexVal(SubSeq(s, 1, Len(s) - 1)) * 16 + DigitVal(s[Len(s)])

\* ObjectId(s) succeeds iff s is 24 hexadecimal characters
ValidId(s) == Len(s) = IdLen /\ \A i \in 1..Len(s) : IsHexChar(s[i])

Decode(s) == HexVal(s)

\* str(x) as used on doc.get("_id")
PyStr(x) ==
    CASE x.t = "ObjectId" -> StrV(Encode(x.v))
      [] x.t = "None" -> StrV(<<"N", "o", "n", "e">>)
      [] OTHER -> x

(***************************************************************************)
(* ProductOut(...) and serialize_product.                                  *)
(***************************************************************************)
ProductOut(id, title, description, price, category, in_stock, image_url, brand) ==
    [id |-> id, title |-> title, description |-> description, price |-> price,
     category |-> category, in_stock |-> in_stock, image_url |-> image_url,
     brand |-> brand]

\* Variant of serialize_product: doc.get("price") without the default
serialize_product_no_price_default(doc) ==
    LET price == PyFloat(Get(doc, "price", None))
    IN  IF price.t = "TypeError"
        THEN [status |-> "TypeError"]
        ELSE [status |-> "ok",
              product |-> ProductOut(PyStr(Get(doc, "_id", None)),
                                     Get(doc, "title", None),
                                     Get(doc, "description", None),
                                     price,
                                     Get(doc, "category", None),
                                     PyBool(Get(doc, "in_stock", BoolV(TRUE))),
                                     Get(doc, "image_url", None),
                                     Get(doc, "brand", None))]

\* Variant of serialize_product: bool(doc.get("in_stock") or True)
serialize_product_always_in_stock(doc) ==
    LET price == PyFloat(Get(doc, "price", IntV(0)))
    IN  IF price.t = "TypeError"
        THEN [status |-> "TypeError"]
        ELSE [status |-> "ok",
              product |-> ProductOut(PyStr(Get(doc, "_id", None)),
                                     Get(doc, "title", None),
                                     Get(doc, "description", None),
                                     price,
                                     Get(doc, "category", None),
                                     BoolV(TRUE),
                                     Get(doc, "image_url", None),
                                     Get(doc, "brand", None))]

serialize_product(doc) ==
    LET price == PyFloat(Get(doc, "price", IntV(0)))
    IN  IF price.t = "TypeError"
        THEN [status |-> "TypeError"]
        ELSE [status |-> "ok",
              product |-> ProductOut(PyStr(Get(doc, "_id", None)),
                                     Get(doc, "title", None),
                                     Get(doc, "description", None),
                                     price,
                                     Get(doc, "category", None),
                                     PyBool(Get(doc, "in_stock", BoolV(TRUE))),
                                     Get(doc, "image_url", None),
                                     Get(doc, "brand", None))]

(***************************************************************************)
(* The collection db["product"]: documents in insertion order.             *)
(***************************************************************************)
\* insert_one(doc): the driver assigns a fresh _id and the document is stored
InsertOne(s, doc, id) == Append(s, ("_id" :> OidV(id)) @@ doc)

Matching(s, key, value) == {k \in 1..Len(s) : key \in DOMAIN s[k] /\ s[k][key] = value}

\* find_one({key: value}): the first matching document, or None
FindOne(s, key, value) ==
    IF Matching(s, key, value) = {} THEN None
    ELSE s[CHOOSE k \in Matching(s, key, value) :
               \A j \in Matching(s, key, value) : k <= j]

(***************************************************************************)
(* seed_products: the fixed catalog and the find-then-insert loop.         *)
(***************************************************************************)
Item(title, description, price, category, in_stock, image_url, brand) ==
    [title |-> StrV(title), description |-> StrV(description), price |-> FloatV(price),
     category |-> StrV(category), in_stock |-> BoolV(in_stock),
     image_url |-> StrV(image_url), brand |-> StrV(brand)]

sample ==
    << Item("Cordless Drill Driver 20V (2 Batteries)",
            "Compact 20V drill/driver with 2x 2.0Ah batteries, charger, and case.",
            12999, "power-tools", TRUE, "photo-1604671801908-6df44230996e", "ToolPro"),
       Item("Brushless Impact Driver 18V",
            "High-torque brushless impact driver, variable speed, belt clip included.",
            14900, "power-tools", TRUE, "photo-1605146768851-eda79da39894", "VoltMax"),
       Item("Claw Hammer 16oz Fiberglass",
            "Durable fiberglass handle with non-slip grip and polished steel head.",
            1999, "hand-tools", TRUE, "photo-1581092921461-eab62e97a14f", "ForgeMaster"),
       Item("Pro Screwdriver Set (10pc)",
            "Magnetic tips, chrome-vanadium steel, organized storage tray.",
            2450, "hand-tools", TRUE, "photo-1597692493640-5c0f1ca2ab40", "PrecisionX"),
       Item("Assorted Wood Screws (200pc)",
            "Multi-size zinc-plated wood screws in resealable box.",
            1249, "fasteners", TRUE, "photo-1610259110184-ef316b7cbb60", "GripTite"),
       Item("LED Work Light Rechargeable",
            "1000-lumen folding work light with magnetic base and USB-C charging.",
            3495, "electrical", FALSE, "photo-1487058792275-0ad4aaf24ca7", "BrightBeam"),
       Item("PTFE Thread Seal Tape (10 Rolls)",
            "For leak-free pipe fittings; 1/2 in. x 520 in.",
            999, "plumbing", TRUE, "photo-1503387762-592deb58ef4e", "SealSure"),
       Item("Interior Wall Paint, Satin 1 Gal",
            "Low-odor, quick-drying acrylic latex paint; great coverage.",
            3200, "paint", TRUE, "photo-1507666664345-c492233acf60", "ColorCraft") >>

\* The request workers that may be inside seed_products at the same time
Procs == {"w1", "w2"}

Running(p) == seeders[p].pc \in {"find", "insert", "return"}

Idle == [pc |-> "idle", i |-> 0, inserted |-> 0, existing |-> None, call |-> 0]

\* After item i: the next item, or the return statement after the last one
Advance(i) == IF i < Len(sample) THEN "find" ELSE "return"

\* POST /api/seed accepted: inserted = 0 and the loop is entered.  (atStart, a
\* history variable, is set by the specification that uses it.)
SeedStart(p) ==
    /\ ~Running(p)
    /\ seeders' = [seeders EXCEPT ![p] =
                      [pc |-> "find", i |-> 1, inserted |-> 0, existing |-> None,
                       call |-> nCalls + 1]]
    /\ nCalls' = nCalls + 1
    /\ overlapped' = (overlapped \/ \E o \in Procs \ {p} : Running(o))
    /\ UNCHANGED <<store, nextId, nFails, nCreates, resp, raw>>

\* Variant of SeedFind: the lookup result is ignored and every item is inserted
SeedFindBlind(p) ==
    /\ seeders[p].pc = "find"
    /\ seeders' = [seeders EXCEPT ![p].existing = None, ![p].pc = "insert"]
    /\ UNCHANGED <<store, nextId, nCalls, nFails, nCreates, overlapped, atStart, resp, raw>>

\* Variant of SeedFind: the lookup has no title condition, find_one({})
SeedFindAny(p) ==
    /\ seeders[p].pc = "find"
    /\ LET i == seeders[p].i
           existing == IF store = <<>> THEN None ELSE store[1]
       IN  seeders' = [seeders EXCEPT ![p].existing = existing,
                                      ![p].pc = IF existing = None THEN "insert"
                                                ELSE IF i < 8 THEN "find" ELSE "return",
                                      ![p].i = IF existing = None THEN i ELSE i + 1]
    /\ UNCHANGED <<store, nextId, nCalls, nFails, nCreates, overlapped, atStart, resp, raw>>

\* existing = db["product"].find_one({"title": p["title"]}); if not existing: ...
SeedFind(p) ==
    /\ seeders[p].pc = "find"
    /\ LET i == seeders[p].i
           existing == FindOne(store, "title", sample[i].title)
       IN  seeders' = [seeders EXCEPT ![p].existing = existing,
                                      ![p].pc = IF existing = None THEN "insert"
                                                ELSE Advance(i),
                                      ![p].i = IF existing = None THEN i ELSE i + 1]
    /\ UNCHANGED <<store, nextId, nCalls, nFails, nCreates, overlapped, atStart, resp, raw>>

\* Variant of SeedInsert: the counter is not incremented
SeedInsertUncounted(p) ==
    /\ seeders[p].pc = "insert"
    /\ store' = InsertOne(store, sample[seeders[p].i], nextId)
    /\ nextId' = nextId + 1
    /\ seeders' = [seeders EXCEPT ![p].pc = IF seeders[p].i < 8 THEN "find" ELSE "return",
                                  ![p].i = @ + 1]
    /\ UNCHANGED <<nCalls, nFails, nCreates, overlapped, atStart, resp, raw>>

\* db["product"].insert_one(p); inserted += 1
SeedInsert(p) ==
    /\ seeders[p].pc = "insert"
    /\ LET i == seeders[p].i
       IN  /\ store' = InsertOne(store, sample[i], nextId)
           /\ nextId' = nextId + 1
           /\ seeders' = [seeders EXCEPT ![p].inserted = @ + 1,
                                         ![p].pc = Advance(i),
                                         ![p].i = i + 1]
    /\ UNCHANGED <<nCalls, nFails, nCreates, overlapped, atStart, resp, raw>>

\* return {"inserted": inserted}
SeedReturn(p) ==
    /\ seeders[p].pc = "return"
    /\ seeders' = [seeders EXCEPT ![p].pc = "done"]
    /\ UNCHANGED <<store, nextId, nCalls, nFails, nCreates, overlapped, atStart, resp, raw>>

\* A store call of the loop raises (the store is unreachable): nothing catches it,
\* the request ends in an error and what was inserted stays
SeedFail(p) ==
    /\ seeders[p].pc \in {"find", "insert"}
    /\ nFails < MaxFails
    /\ seeders' = [seeders EXCEPT ![p].pc = "failed"]
    /\ nFails' = nFails + 1
    /\ UNCHANGED <<store, nextId, nCalls, nCreates, overlapped, atStart, resp, raw>>

(***************************************************************************)
(* create_product.                                                         *)
(***************************************************************************)
\* create_document(collection, data): the record is persisted and the store
\* assigns its identifier
CreateDocument(s, data, id) == InsertOne(s, data, id)

\* new_id = create_document("product", payload); return new_id
create_product(payload) ==
    /\ store' = CreateDocument(store, payload, nextId)
    /\ nextId' = nextId + 1
    /\ nCreates' = nCreates + 1
    /\ resp' = [op |-> "create_product", status |-> 200, queries |-> 1,
                request |-> payload, body |-> StrV(Encode(nextId))]
    /\ UNCHANGED <<seeders, nCalls, nFails, overlapped, atStart, raw>>

NoResponse == [op |-> "none"]

InitStore ==
    /\ store = <<>>
    /\ nextId = IdBase
    /\ seeders = [p \in Procs |-> Idle]
    /\ nCalls = 0
    /\ nFails = 0
    /\ nCreates = 0
    /\ overlapped = FALSE
    /\ atStart = <<>>
    /\ resp = NoResponse
    /\ raw = <<>>

(***************************************************************************)
(* SpecSeed: seed requests served by concurrent workers.                   *)
(***************************************************************************)
RaceSeedStart(p) == nCalls < MaxRaceCalls /\ SeedStart(p) /\ UNCHANGED atStart

NextSeed ==
    \E p \in Procs : RaceSeedStart(p) \/ SeedFind(p) \/ SeedInsert(p) \/ SeedReturn(p)

SpecSeed == InitStore /\ [][NextSeed]_vars

(***************************************************************************)
(* SpecSeq: requests served one after another; a seed request may fail at  *)
(* a store call, and products may be created between seed requests.        *)
(***************************************************************************)
NoneRunning == \A p \in Procs : ~Running(p)

Payload(title, description, price, category, in_stock, image_url, brand) ==
    [title |-> title, description |-> description, price |-> price,
     category |-> category, in_stock |-> in_stock, image_url |-> image_url,
     brand |-> brand]

SeqPayloads ==
    { Payload(sample[3].title, None, FloatV(500), StrV("hand-tools"), BoolV(FALSE), None, None),
      Payload(StrV("Garden Hose 50ft"), StrV("Kink-free hose."), FloatV(2999), None,
              BoolV(TRUE), None, StrV("AquaFlow")) }

\* atStart records the collection as the request found it
SeqSeedStart(p) ==
    NoneRunning /\ nCalls < MaxSeedCalls /\ SeedStart(p) /\ atStart' = store

SeqCreate(payload) == NoneRunning /\ nCreates < MaxCreates /\ create_product(payload)

NextSeq ==
    \/ \E p \in Procs : SeqSeedStart(p) \/ SeedFind(p) \/ SeedInsert(p)
                          \/ SeedReturn(p) \/ SeedFail(p)
    \/ \E payload \in SeqPayloads : SeqCreate(payload)

SpecSeq == InitStore /\ [][NextSeq]_vars

(***************************************************************************)
(* get_product.                                                            *)
(***************************************************************************)
\* Variant of GetProductResponse: the identifier is not validated, a malformed
\* one is looked up and not found
GetProductResponseUnvalidated(s, product_id) ==
    LET doc == IF ValidId(product_id) THEN FindOne(s, "_id", OidV(Decode(product_id)))
               ELSE None
    IN  IF doc = None
        THEN [op |-> "get_product", request |-> product_id, status |-> 404,
              queries |-> 1, detail |-> "Not found"]
        ELSE [op |-> "get_product", request |-> product_id, status |-> 200,
              queries |-> 1, body |-> serialize_product(doc).product]

\* The response to GET /api/products/{product_id} over collection s
GetProductResponse(s, product_id) ==
    IF ~ValidId(product_id)
    THEN [op |-> "get_product", request |-> product_id, status |-> 400,
          queries |-> 0, detail |-> "Invalid ID"]
    ELSE LET doc == FindOne(s, "_id", OidV(Decode(product_id)))
         IN  IF doc = None
             THEN [op |-> "get_product", request |-> product_id, status |-> 404,
                   queries |-> 1, detail |-> "Not found"]
             ELSE IF serialize_product(doc).status # "ok"
             THEN [op |-> "get_product", request |-> product_id, status |-> 500,
                   queries |-> 1, detail |-> serialize_product(doc).status]
             ELSE [op |-> "get_product", request |-> product_id, status |-> 200,
                   queries |-> 1, body |-> serialize_product(doc).product]

get_product(product_id) ==
    /\ resp' = GetProductResponse(store, product_id)
    /\ UNCHANGED <<store, nextId, seeders, nCalls, nFails, nCreates, overlapped, atStart, raw>>

(***************************************************************************)
(* list_products.                                                          *)
(***************************************************************************)
MinLimit == 1
MaxLimit == 100
DefaultLimit == 50

Lower(c) == CASE c = "A" -> "a" [] c = "B" -> "b" [] OTHER -> c

\* {"$regex": pattern, "$options": "i"} on a field value: the pattern, in which
\* "." stands for any character, matches somewhere in the text, ignoring case
RegexSearch(pattern, value) ==
    /\ value.t = "str"
    /\ \E start \in 1..(Len(value.v) - Len(pattern) + 1) :
          \A j \in 1..Len(pattern) :
              \/ pattern[j] = "."
              \/ Lower(pattern[j]) = Lower(value.v[start + j - 1])

EmptyDict == [k \in {} |-> None]

\* filters = {}; if q: filters["$or"] = [...]; if category: filters["category"] = category
BuildFilters(q, category) ==
    (IF Truthy(q)
     THEN "$or" :> << [field |-> "title", regex |-> q.v],
                      [field |-> "description", regex |-> q.v],
                      [field |-> "brand", regex |-> q.v] >>
     ELSE EmptyDict)
    @@
    (IF Truthy(category) THEN "category" :> category ELSE EmptyDict)

\* The store's reading of such a filter: every key must hold; "$or" holds when one
\* of its conditions does; any other key is an equality on that field
MatchesFilter(doc, filters) ==
    \A key \in DOMAIN filters :
        IF key = "$or"
        THEN \E n \in 1..Len(filters[key]) :
                 /\ filters[key][n].field \in DOMAIN doc
                 /\ RegexSearch(filters[key][n].regex, doc[filters[key][n].field])
        ELSE key \in DOMAIN doc /\ doc[key] = filters[key]

MatchingDocs(s, filters) == {k \in 1..Len(s) : MatchesFilter(s[k], filters)}

Min(a, b) == IF a <= b THEN a ELSE b

\* The elements of s at the positions in chosen, in the order of s
RECURSIVE Pick(_, _, _)
Pick(s, chosen, k) ==
    IF k = 0 THEN <<>>
    ELSE IF k \in chosen THEN Append(Pick(s, chosen, k - 1), s[k])
         ELSE Pick(s, chosen, k - 1)

\* get_documents("product", filters, limit): limit of the matching documents (all
\* of them when there are fewer); which ones is the store's choice
GetDocuments(s, filters, limit) ==
    { Pick(s, chosen, Len(s)) :
        chosen \in { c \in SUBSET MatchingDocs(s, filters) :
                       Cardinality(c) = Min(limit, Cardinality(MatchingDocs(s, filters))) } }

\* limit: int = Query(50, ge=1, le=100)
LimitOf(limit) == IF limit = None THEN DefaultLimit ELSE limit.v

\* Variant of LimitValid: the upper bound le=100 is missing
LimitValidNoUpperBound(limit) == LimitOf(limit) >= MinLimit

LimitValid(limit) == LimitOf(limit) >= MinLimit /\ LimitOf(limit) <= MaxLimit

list_products(q, category, limit) ==
    /\ IF ~LimitValid(limit)
       THEN resp' = [op |-> "list_products",
                     request |-> [q |-> q, category |-> category, limit |-> limit],
                     status |-> 422, queries |-> 0]
       ELSE \E docs \in GetDocuments(store, BuildFilters(q, category), LimitOf(limit)) :
                resp' = [op |-> "list_products",
                         request |-> [q |-> q, category |-> category, limit |-> limit],
                         status |-> 200, queries |-> 1,
                         body |-> [n \in 1..Len(docs) |-> serialize_product(docs[n]).product]]
    /\ UNCHANGED <<store, nextId, seeders, nCalls, nFails, nCreates, overlapped, atStart, raw>>

(***************************************************************************)
(* SpecApi: create, get and list requests served one after another.        *)
(***************************************************************************)
T(s) == StrV(s)

ApiPayloads ==
    { Payload(T(<<"a">>), None, FloatV(100), T(<<"c">>), BoolV(TRUE), None, None),
      Payload(T(<<"B">>), T(<<"A", "b">>), FloatV(250), T(<<"d">>), BoolV(TRUE), None, None),
      Payload(T(<<"b">>), None, FloatV(0), None, BoolV(FALSE), T(<<"u">>), T(<<"a", ".">>)) }

\* The same identifier written with upper-case hexadecimal digits
UpperId(s) == [i \in 1..Len(s) |-> IF DigitVal(s[i]) >= 10 THEN UpperHex[DigitVal(s[i]) - 9]
                                   ELSE s[i]]

IdStrings ==
    {Encode(n) : n \in IdBase..(IdBase + MaxRecords)}
    \cup {UpperId(Encode(IdBase)),
          [i \in 1..IdLen |-> IF i = IdLen THEN "g" ELSE "0"],
          [i \in 1..(IdLen - 1) |-> "0"],
          [i \in 1..(IdLen + 1) |-> "0"],
          <<"N", "o", "n", "e">>,
          <<>>}

Queries == {None, T(<<>>), T(<<"a">>), T(<<"A", "B">>), T(<<".">>), T(<<"a", ".">>)}

Categories == {None, T(<<>>), T(<<"c">>), T(<<"d">>), T(<<"C">>)}

Limits == {None, IntV(0), IntV(1), IntV(2), IntV(100), IntV(101)}

ApiCreate(payload) == Len(store) < MaxRecords /\ create_product(payload)

NextApi ==
    \/ \E payload \in ApiPayloads : ApiCreate(payload)
    \/ \E product_id \in IdStrings : get_product(product_id)
    \/ \E q \in Queries, category \in Categories, limit \in Limits :
           list_products(q, category, limit)

SpecApi == InitStore /\ [][NextApi]_vars

(***************************************************************************)
(* SpecSer: serialize_product applied to a raw document.                   *)
(***************************************************************************)
Absent == [t |-> "absent"]

\* The document with the given values, without the keys whose value is Absent
RawDoc(id, title, description, price, category, in_stock, image_url, brand) ==
    LET all == [_id |-> id, title |-> title, description |-> description,
                price |-> price, category |-> category, in_stock |-> in_stock,
                image_url |-> image_url, brand |-> brand]
    IN  [k \in {x \in DOMAIN all : all[x] # Absent} |-> all[k]]

RawDocs ==
    { RawDoc(id, title, description, price, category, in_stock, image_url, brand) :
        id \in {Absent, OidV(IdBase), OidV(IdBase + 17)},
        title \in {Absent, T(<<"a">>)},
        description \in {Absent, None, T(<<"b">>)},
        price \in {Absent, IntV(3), FloatV(250)},
        category \in {Absent, T(<<"c">>)},
        in_stock \in {Absent, BoolV(TRUE), BoolV(FALSE)},
        image_url \in {Absent, T(<<"u">>)},
        brand \in {Absent, T(<<"B">>)} }

InitSer ==
    /\ raw \in RawDocs
    /\ store = <<>>
    /\ nextId = IdBase
    /\ seeders = [p \in Procs |-> Idle]
    /\ nCalls = 0
    /\ nFails = 0
    /\ nCreates = 0
    /\ overlapped = FALSE
    /\ atStart = <<>>
    /\ resp = NoResponse

Serialize ==
    /\ resp = NoResponse
    /\ resp' = [op |-> "serialize_product", result |-> serialize_product(raw)]
    /\ UNCHANGED <<store, nextId, seeders, nCalls, nFails, nCreates, overlapped, atStart, raw>>

NextSer == Serialize

SpecSer == InitSer /\ [][NextSer]_vars

(***************************************************************************)
(* Properties of seeding.                                                  *)
(***************************************************************************)
Titles(s) == {s[k].title : k \in 1..Len(s)}

CatalogTitles == {sample[i].title : i \in 1..Len(sample)}

NoDuplicateTitles(s) == \A j, k \in 1..Len(s) : j # k => s[j].title # s[k].title

IsPrefix(a, b) == Len(a) <= Len(b) /\ SubSeq(b, 1, Len(a)) = a

\* The catalog items among the first k whose title is not in s0, in catalog order
RECURSIVE AbsentItems(_, _)
AbsentItems(s0, k) ==
    IF k = 0 THEN <<>>
    ELSE IF sample[k].title \in Titles(s0)
         THEN AbsentItems(s0, k - 1)
         ELSE Append(AbsentItems(s0, k - 1), sample[k])

\* s0 followed by those items, each under the next identifier of the store
Seeded(s0, k) ==
    LET new == AbsentItems(s0, k)
    IN  s0 \o [j \in 1..Len(new) |-> ("_id" :> OidV(IdBase + Len(s0) + j - 1)) @@ new[j]]

\* Items a request has dealt with: item i is pending while pc is find or insert
Processed(p) ==
    IF seeders[p].pc \in {"return", "done"} THEN Len(sample) ELSE seeders[p].i - 1

Latest(p) == seeders[p].call = nCalls /\ seeders[p].pc # "idle"

\* C1: from an empty store, with requests served one after another and neither a
\* failure nor a create in between, the first completed seed request returns
\* inserted = 8 (the whole catalog), every later one returns inserted = 0, and
\* the store holds 8 records after each of them.
C1_SeedTwice ==
    (nFails = 0 /\ nCreates = 0) =>
        \A p \in Procs :
            seeders[p].pc = "done" =>
                /\ Len(sample) = 8
                /\ Len(store) = 8
                /\ seeders[p].inserted = IF seeders[p].call = 1 THEN 8 ELSE 0

C1_Witness ==
    /\ nFails = 0 /\ nCreates = 0 /\ Len(store) = 8
    /\ \E p, q \in Procs :
          /\ seeders[p].pc = "done" /\ seeders[p].call = 1 /\ seeders[p].inserted = 8
          /\ seeders[q].pc = "done" /\ seeders[q].call = 2 /\ seeders[q].inserted = 0

\* C2 (as stated): in every state reachable from an empty store by seed requests,
\* overlapping or not, no two records have the same title.
C2_NoDuplicateTitles == NoDuplicateTitles(store)

\* C2 (amended): as long as no seed request has started while another one was
\* still running, no two records have the same title.
C2_NoDuplicatesWithoutOverlap == ~overlapped => NoDuplicateTitles(store)

C2_Witness ==
    /\ ~overlapped /\ nCalls = 2 /\ Len(store) = 8
    /\ \A p \in Procs : seeders[p].pc = "done"

\* C9: seed requests, overlapping or not, never fail, and every catalog title is in
\* the store once a request has returned; when two overlapping requests have both
\* returned, their counts add up to the number of records, which is at least 8
\* (and more than 8 when both inserted the same title: the witness).
C9_OverlapOutcome ==
    /\ \A p \in Procs : seeders[p].pc # "failed"
    /\ \A p \in Procs : seeders[p].pc = "done" => CatalogTitles \subseteq Titles(store)
    /\ (overlapped /\ nCalls = 2 /\ \A p \in Procs : seeders[p].pc = "done") =>
          /\ seeders["w1"].inserted + seeders["w2"].inserted = Len(store)
          /\ Len(store) >= 8

C9_Witness ==
    /\ overlapped /\ nCalls = 2
    /\ \A p \in Procs : seeders[p].pc = "done"
    /\ ~NoDuplicateTitles(store)
    /\ seeders["w1"].inserted + seeders["w2"].inserted > 8

\* C10: with requests served one after another, the latest seed request has at
\* every point added exactly the catalog items absent when it started, among
\* those it has dealt with, in catalog order behind the records it found, and
\* counted them; a failure keeps them; once it returns, all 8 catalog titles are
\* present; and a request that starts with all of them present returns 0.
C10_SeedConverges ==
    \A p \in Procs :
        Latest(p) =>
            LET expected == Seeded(atStart, Processed(p))
            IN  /\ IsPrefix(expected, store)
                /\ Running(p) => store = expected
                /\ seeders[p].inserted = Len(expected) - Len(atStart)
                /\ seeders[p].pc \in {"return", "done"} =>
                      CatalogTitles \subseteq Titles(store)
                /\ (seeders[p].pc = "done" /\ CatalogTitles \subseteq Titles(atStart)) =>
                      seeders[p].inserted = 0

C10_Witness ==
    /\ nFails = 1 /\ nCreates = 1 /\ nCalls = 3
    /\ \E k \in 1..Len(store) : store[k].title = sample[3].title /\ store[k].price = FloatV(500)
    /\ \E p, q \in Procs :
          /\ seeders[p].pc = "done" /\ seeders[p].call = 2
          /\ seeders[p].inserted > 0 /\ seeders[p].inserted < 8
          /\ seeders[q].pc = "done" /\ seeders[q].call = 3 /\ seeders[q].inserted = 0

(***************************************************************************)
(* Properties of the serializer.                                           *)
(***************************************************************************)
\* C4: for every raw record without `_id`, serialize_product reports
\* CorruptRecord and returns no product.
C4_MissingIdIsCorruptRecord ==
    (resp.op = "serialize_product" /\ "_id" \notin DOMAIN raw) =>
        resp.result.status = "CorruptRecord"

\* The value of a stored price in hundredths
Hundredths(x) == IF x.t = "int" THEN x.v * 100 ELSE x.v

PassedThrough == {"title", "description", "category", "image_url", "brand"}

\* C5: the product serialized from a raw record always has a float price and a
\* boolean in_stock: 0.0 and true when the record has no such key, the stored
\* value otherwise; title, description, category, image_url and brand are the
\* record's values, null when the record has none.
C5_SerializerDefaults ==
    resp.op = "serialize_product" =>
        /\ resp.result.status = "ok"
        /\ LET product == resp.result.product
           IN  /\ product.price.t = "float"
               /\ product.in_stock.t = "bool"
               /\ product.price.v = IF "price" \in DOMAIN raw THEN Hundredths(raw.price) ELSE 0
               /\ product.in_stock.v = IF "in_stock" \in DOMAIN raw THEN raw.in_stock.v ELSE TRUE
               /\ \A k \in PassedThrough :
                     product[k] = IF k \in DOMAIN raw THEN raw[k] ELSE None

C5_Witness ==
    /\ resp.op = "serialize_product"
    /\ "_id" \in DOMAIN raw
    /\ DOMAIN raw \cap {"price", "in_stock", "title", "brand"} = {}
    /\ resp.result.product.price = FloatV(0)
    /\ resp.result.product.in_stock = BoolV(TRUE)
    /\ resp.result.product.title = None

(***************************************************************************)
(* Properties of the product requests.                                     *)
(***************************************************************************)
HexChars == {"0", "1", "2", "3", "4", "5", "6", "7", "8", "9",
             "a", "b", "c", "d", "e", "f", "A", "B", "C", "D", "E", "F"}

WellFormedId(s) == Len(s) = 24 /\ \A i \in 1..Len(s) : s[i] \in HexChars

WithId(s, n) == {k \in 1..Len(s) : s[k]["_id"] = OidV(n)}

C3_Response ==
    resp.op = "get_product" =>
        IF ~WellFormedId(resp.request)
        THEN resp.status = 400 /\ resp.queries = 0 /\ "body" \notin DOMAIN resp
        ELSE IF WithId(store, HexVal(resp.request)) = {}
        THEN resp.status = 404 /\ "body" \notin DOMAIN resp
        ELSE /\ resp.status = 200
             /\ resp.body.id = StrV(Encode(HexVal(resp.request)))
             /\ \E k \in WithId(store, HexVal(resp.request)) :
                   resp.body = serialize_product(store[k]).product

\* C3: get_product answers 400 without querying the store when the id is not 24
\* hexadecimal characters, 404 when it is but no record has that id, and
\* otherwise the serialized record with exactly that id; the store is unchanged.
C3_GetProduct ==
    /\ []C3_Response
    /\ [][resp'.op = "get_product" => store' = store]_vars

C3_Witness ==
    /\ resp.op = "get_product" /\ resp.status = 200
    /\ resp.request # resp.body.id.v
    /\ Len(store) = 2 /\ store[2]["_id"] # OidV(HexVal(resp.request))

\* q is contained in the text, ignoring case
Contains(q, value) ==
    /\ value.t = "str"
    /\ \E start \in 1..(Len(value.v) - Len(q) + 1) :
          \A j \in 1..Len(q) : Lower(q[j]) = Lower(value.v[start + j - 1])

\* The records the request should select: q, when non-empty, contained in title,
\* description or brand; category, when given (an empty one is read as not
\* given), equal to the record's
Selected(doc, q, category) ==
    /\ (q # None /\ q.v # <<>>) =>
          \E f \in {"title", "description", "brand"} : Contains(q.v, doc[f])
    /\ (category # None /\ category.v # <<>>) => doc["category"] = category

\* C6: list_products returns only records whose title, description or brand
\* contains q ignoring case (when q is non-empty) and whose category equals the
\* requested one (when a category is given), whatever their category when only q
\* is given, and all of them when they fit in the limit.
C6_FilterSelects ==
    (resp.op = "list_products" /\ resp.status = 200) =>
        LET sel == {k \in 1..Len(store) :
                      Selected(store[k], resp.request.q, resp.request.category)}
        IN  /\ \A n \in 1..Len(resp.body) :
                  \E k \in sel : resp.body[n] = serialize_product(store[k]).product
            /\ Cardinality(sel) <= LimitOf(resp.request.limit) =>
                  Len(resp.body) = Cardinality(sel)

\* C7: a list_products request with a limit outside [1, 100] is answered 422
\* without building a filter or querying the store; otherwise it returns at most
\* limit products, each the serialization of a different stored record that
\* matches the filter, and all the matching records when there are at most limit.
C7_LimitBound ==
    resp.op = "list_products" =>
        LET limit == IF resp.request.limit = None THEN 50 ELSE resp.request.limit.v
            matching == MatchingDocs(store, BuildFilters(resp.request.q, resp.request.category))
        IN  IF limit < 1 \/ limit > 100
            THEN resp.status = 422 /\ resp.queries = 0 /\ "body" \notin DOMAIN resp
            ELSE /\ resp.status = 200
                 /\ Len(resp.body) <= limit
                 /\ \A n \in 1..Len(resp.body) :
                       \E k \in matching : resp.body[n] = serialize_product(store[k]).product
                 /\ \A m, n \in 1..Len(resp.body) : m # n => resp.body[m] # resp.body[n]
                 /\ Cardinality(matching) <= limit => Len(resp.body) = Cardinality(matching)

C7_Witness ==
    /\ resp.op = "list_products" /\ resp.status = 200
    /\ resp.request.limit = IntV(1)
    /\ Len(resp.body) = 1
    /\ Cardinality(MatchingDocs(store, BuildFilters(resp.request.q, resp.request.category))) = 2

PayloadFields == {"title", "description", "price", "category", "in_stock", "image_url", "brand"}

C8_ReadBack ==
    resp.op = "create_product" =>
        LET got == GetProductResponse(store, resp.body.v)
        IN  /\ got.status = 200
            /\ got.body.id = resp.body
            /\ \A f \in PayloadFields : got.body[f] = resp.request[f]
            /\ \A k \in 1..(Len(store) - 1) : PyStr(store[k]["_id"]) # resp.body

\* C8: right after create_product, get_product with the returned id string
\* answers the product with that id and the created values; the id differs from
\* the id of every record that was already stored; and no record's id ever
\* changes.
C8_CreateThenGet ==
    /\ []C8_ReadBack
    /\ [][\A k \in 1..Len(store) :
             Len(store') >= k /\ store'[k]["_id"] = store[k]["_id"]]_vars

C8_Witness ==
    /\ resp.op = "create_product"
    /\ Len(store) = 2
    /\ resp.request.in_stock = BoolV(FALSE)
    /\ GetProductResponse(store, resp.body.v).status = 200
    /\ GetProductResponse(store, resp.body.v).body.title = store[2].title

====
